---- MODULE Spec2Model ----
(***************************************************************************)
(* Model of the polling hook useApiWithInterval (src/src/useApiWithInterval.ts) *)
(* as it is driven by its host component (src/src/ApiComponent.tsx, mounted *)
(* and unmounted by App).  One hook instance is followed from its first     *)
(* render to after its unmount.  Every event handler and every promise      *)
(* continuation runs to completion (JavaScript run-to-completion), so each  *)
(* is one action.  apiCall is an async function (useApiWithInterval.ts:4):  *)
(* it returns a promise, which the environment settles later with any       *)
(* outcome, whether or not its signal was aborted.                          *)
(***************************************************************************)
EXTENDS Integers, Sequences, FiniteSets, TLC

\* ---- bounds of the model ----
MaxCalls == 3
MaxTime == 3
MaxInterval == 2
NumValues == 2
NumErrors == 2
NumFns == 2
MaxTimerId == 2
MaxPending == 2

VARIABLES phase, cfg, data, loading, error, intervalRef, abortControllerRef,
          timers, nextTimerId, aborted, calls, latestOutcome, now, lastEvent

vars == <<phase, cfg, data, loading, error, intervalRef, abortControllerRef,
          timers, nextTimerId, aborted, calls, latestOutcome, now, lastEvent>>

\* null, for data, error and the two refs (ids and values start at 1)
Null == 0

Values == 1..NumValues
Intervals == 1..MaxInterval

\* what a rejected promise can carry: an Error, an Error named AbortError,
\* or a value that is not an Error (a raw string); id is the object identity
ErrorObjects == {[isError |-> TRUE, name |-> "Error", id |-> i] : i \in 1..NumErrors}
AbortErrorObject == [isError |-> TRUE, name |-> "AbortError", id |-> NumErrors + 1]
StringObject == [isError |-> FALSE, name |-> "", id |-> NumErrors + 2]
Thrown == ErrorObjects \cup {AbortErrorObject, StringObject}

Pending == [kind |-> "pending", val |-> Null, err |-> StringObject]
Fulfilled(v) == [kind |-> "fulfilled", val |-> v, err |-> StringObject]
Rejected(e) == [kind |-> "rejected", val |-> Null, err |-> e]
Outcomes == {Fulfilled(v) : v \in Values} \cup {Rejected(e) : e \in Thrown}

\* the options of the hook; apiCall is the identity of the function passed
Configs == [apiCall : {1}, interval : Intervals, immediate : BOOLEAN]

\* the hook's cells, gathered so that the hook's functions compose
Cur == [data |-> data, loading |-> loading, error |-> error,
        intervalRef |-> intervalRef, abortControllerRef |-> abortControllerRef,
        timers |-> timers, nextTimerId |-> nextTimerId,
        aborted |-> aborted, calls |-> calls, latestOutcome |-> latestOutcome]

Install(h) ==
    /\ data' = h.data
    /\ loading' = h.loading
    /\ error' = h.error
    /\ intervalRef' = h.intervalRef
    /\ abortControllerRef' = h.abortControllerRef
    /\ timers' = h.timers
    /\ nextTimerId' = h.nextTimerId
    /\ aborted' = h.aborted
    /\ calls' = h.calls
    /\ latestOutcome' = h.latestOutcome

PendingCalls(cs) == {i \in 1..Len(cs) : ~cs[i].settled}

\* FetchData keeping the controller that is in the slot instead of making one
FetchDataReuseController(h, fn, by, t) ==
    LET ctl == IF h.abortControllerRef # Null THEN h.abortControllerRef
                                             ELSE Len(h.calls) + 1
        ab == IF h.abortControllerRef # Null
              THEN h.aborted \cup {h.abortControllerRef}
              ELSE h.aborted
    IN [h EXCEPT !.aborted = ab,
                 !.abortControllerRef = ctl,
                 !.loading = TRUE,
                 !.error = Null,
                 !.latestOutcome = Pending,
                 !.calls = Append(h.calls,
                     [fn |-> fn, signal |-> ctl, by |-> by, at |-> t,
                      abortedAtInvoke |-> ab,
                      outstanding |-> PendingCalls(h.calls),
                      settled |-> FALSE, completion |-> "running"])]

\* FetchData aborting the previous controller only after it invoked apiCall
FetchDataAbortAfter(h, fn, by, t) ==
    LET ctl == Len(h.calls) + 1
        ab == IF h.abortControllerRef # Null
              THEN h.aborted \cup {h.abortControllerRef}
              ELSE h.aborted
    IN [h EXCEPT !.aborted = ab,
                 !.abortControllerRef = ctl,
                 !.loading = TRUE,
                 !.error = Null,
                 !.latestOutcome = Pending,
                 !.calls = Append(h.calls,
                     [fn |-> fn, signal |-> ctl, by |-> by, at |-> t,
                      abortedAtInvoke |-> h.aborted,
                      outstanding |-> PendingCalls(h.calls),
                      settled |-> FALSE, completion |-> "running"])]

\* FetchData with a setData(null) next to its setError(null)
FetchDataClearData(h, fn, by, t) ==
    LET ctl == Len(h.calls) + 1
        ab == IF h.abortControllerRef # Null
              THEN h.aborted \cup {h.abortControllerRef}
              ELSE h.aborted
    IN [h EXCEPT !.aborted = ab,
                 !.abortControllerRef = ctl,
                 !.loading = TRUE,
                 !.error = Null,
                 !.data = Null,
                 !.latestOutcome = Pending,
                 !.calls = Append(h.calls,
                     [fn |-> fn, signal |-> ctl, by |-> by, at |-> t,
                      abortedAtInvoke |-> ab,
                      outstanding |-> PendingCalls(h.calls),
                      settled |-> FALSE, completion |-> "running"])]

\* fetchData up to its await: abort the previous controller, make a new one,
\* setLoading(true), setError(null), invoke apiCall with the new signal
FetchData(h, fn, by, t) ==
    LET ctl == Len(h.calls) + 1
        ab == IF h.abortControllerRef # Null
              THEN h.aborted \cup {h.abortControllerRef}
              ELSE h.aborted
    IN [h EXCEPT !.aborted = ab,
                 !.abortControllerRef = ctl,
                 !.loading = TRUE,
                 !.error = Null,
                 !.latestOutcome = Pending,
                 !.calls = Append(h.calls,
                     [fn |-> fn, signal |-> ctl, by |-> by, at |-> t,
                      abortedAtInvoke |-> ab,
                      outstanding |-> PendingCalls(h.calls),
                      settled |-> FALSE, completion |-> "running"])]

\* OnSuccess without its setError(null)
OnSuccessKeepError(h, v) == [h EXCEPT !.data = v]

\* the try branch after the await
OnSuccess(h, v) == [h EXCEPT !.data = v, !.error = Null]

\* IsReported without the comparison of the name
IsReportedAnyError(err) == err.isError

\* the test of the catch branch
IsReported(err) == err.isError /\ err.name # "AbortError"

\* OnCatch treating every rejection but an AbortError as an Error
OnCatchAnyValue(h, err) ==
    IF err.name # "AbortError"
    THEN [h EXCEPT !.error = err.id, !.data = Null]
    ELSE h

\* OnCatch without its setData(null)
OnCatchKeepData(h, err) ==
    IF IsReported(err)
    THEN [h EXCEPT !.error = err.id]
    ELSE h

\* the catch branch
OnCatch(h, err) ==
    IF IsReported(err)
    THEN [h EXCEPT !.error = err.id, !.data = Null]
    ELSE h

\* OnFinally without its setLoading(false)
OnFinallyKeepLoading(h) == h

\* the finally branch
OnFinally(h) == [h EXCEPT !.loading = FALSE]

\* RethrownByCatch rethrowing what the catch branch does not report
RethrownUnreported(err) == ~IsReported(err)

\* the catch clause takes every thrown value and throws nothing itself
RethrownByCatch(err) == FALSE

\* how the promise returned by fetchData ends when apiCall's promise ends with o
Completion(o) ==
    IF o.kind = "rejected" /\ RethrownByCatch(o.err) THEN "thrown" ELSE "normal"

\* Continuation calling fetchData again after a reported failure
ContinuationRetry(h, r, o) ==
    LET h1 == [h EXCEPT !.calls[r].settled = TRUE,
                        !.calls[r].completion = Completion(o),
                        !.latestOutcome = IF r = Len(h.calls) THEN o ELSE @]
        h2 == OnFinally(IF o.kind = "fulfilled" THEN OnSuccess(h1, o.val)
                                                ELSE OnCatch(h1, o.err))
    IN IF o.kind = "rejected" /\ IsReported(o.err)
       THEN FetchData(h2, h.calls[r].fn, "retry", h.calls[r].at)
       ELSE h2

\* fetchData from its await on, for the promise of call r settling with o
Continuation(h, r, o) ==
    LET h1 == [h EXCEPT !.calls[r].settled = TRUE,
                        !.calls[r].completion = Completion(o),
                        !.latestOutcome = IF r = Len(h.calls) THEN o ELSE @]
    IN OnFinally(IF o.kind = "fulfilled" THEN OnSuccess(h1, o.val)
                                         ELSE OnCatch(h1, o.err))

ClearInterval(ts, id) == {tm \in ts : tm.id # id}

\* StartInterval without its clearInterval
StartIntervalNoClear(h, fn, period, t) ==
    [h EXCEPT !.timers = h.timers \cup {[id |-> h.nextTimerId, fn |-> fn,
                                         period |-> period, due |-> t + period]},
              !.intervalRef = h.nextTimerId,
              !.nextTimerId = h.nextTimerId + 1]

\* startInterval: clear the timer in the slot, arm a new one calling fetchData
StartInterval(h, fn, period, t) ==
    LET ts == IF h.intervalRef # Null
              THEN ClearInterval(h.timers, h.intervalRef)
              ELSE h.timers
    IN [h EXCEPT !.timers = ts \cup {[id |-> h.nextTimerId, fn |-> fn,
                                      period |-> period, due |-> t + period]},
                 !.intervalRef = h.nextTimerId,
                 !.nextTimerId = h.nextTimerId + 1]

\* Effect fetching whatever immediate is
EffectAlwaysFetch(h, c, t) ==
    StartInterval(FetchData(h, c.apiCall, "mount", t), c.apiCall, c.interval, t)

\* Effect arming a timer only when the timer slot is empty
EffectNoRestart(h, c, t) ==
    LET h1 == IF c.immediate THEN FetchData(h, c.apiCall, "mount", t) ELSE h
    IN IF h1.intervalRef # Null THEN h1
       ELSE StartInterval(h1, c.apiCall, c.interval, t)

\* the body of useEffect
Effect(h, c, t) ==
    StartInterval(IF c.immediate THEN FetchData(h, c.apiCall, "mount", t) ELSE h,
                  c.apiCall, c.interval, t)

\* Cleanup without its clearInterval
CleanupNoClear(h) ==
    [h EXCEPT !.aborted = IF h.abortControllerRef # Null
                          THEN h.aborted \cup {h.abortControllerRef}
                          ELSE h.aborted]

\* Cleanup without its abort
CleanupNoAbort(h) ==
    [h EXCEPT !.timers = IF h.intervalRef # Null
                         THEN ClearInterval(h.timers, h.intervalRef)
                         ELSE h.timers]

\* the function returned by useEffect
Cleanup(h) ==
    [h EXCEPT !.timers = IF h.intervalRef # Null
                         THEN ClearInterval(h.timers, h.intervalRef)
                         ELSE h.timers,
              !.aborted = IF h.abortControllerRef # Null
                          THEN h.aborted \cup {h.abortControllerRef}
                          ELSE h.aborted]

NoEvent == [kind |-> "none", req |-> 0, outcome |-> Pending]
Event(k, r, o) == [kind |-> k, req |-> r, outcome |-> o]

Init ==
    /\ phase = "created"
    /\ cfg \in Configs
    /\ data = Null
    /\ loading = FALSE
    /\ error = Null
    /\ intervalRef = Null
    /\ abortControllerRef = Null
    /\ timers = {}
    /\ nextTimerId = 1
    /\ aborted = {}
    /\ calls = <<>>
    /\ now = 0
    /\ latestOutcome = Pending
    /\ lastEvent = NoEvent

\* the component is mounted: the effect runs
Mount ==
    /\ phase = "created"
    /\ Install(Effect(Cur, cfg, now))
    /\ phase' = "mounted"
    /\ lastEvent' = Event("mount", 0, Pending)
    /\ UNCHANGED <<cfg, now>>

\* Tick of a timer that fires once (setTimeout in place of setInterval)
TickOneShot ==
    /\ Len(calls) < MaxCalls
    /\ \E tm \in timers :
        /\ tm.due = now
        /\ LET h1 == FetchData(Cur, tm.fn, "tick", now)
           IN Install([h1 EXCEPT !.timers = h1.timers \ {tm}])
    /\ lastEvent' = Event("tick", Len(calls) + 1, Pending)
    /\ UNCHANGED <<phase, cfg, now>>

\* Tick whose callback returns at once while loading is true
TickSkipWhenLoading ==
    /\ Len(calls) < MaxCalls
    /\ \E tm \in timers :
        /\ tm.due = now
        /\ LET h1 == IF loading THEN Cur ELSE FetchData(Cur, tm.fn, "tick", now)
           IN Install([h1 EXCEPT !.timers =
                  (h1.timers \ {tm}) \cup {[tm EXCEPT !.due = tm.due + tm.period]}])
    /\ lastEvent' = Event("tick", Len(calls) + 1, Pending)
    /\ UNCHANGED <<phase, cfg, now>>

\* a timer that is due fires: its callback is fetchData
Tick ==
    /\ Len(calls) < MaxCalls
    /\ \E tm \in timers :
        /\ tm.due = now
        /\ LET h1 == FetchData(Cur, tm.fn, "tick", now)
           IN Install([h1 EXCEPT !.timers =
                  (h1.timers \ {tm}) \cup {[tm EXCEPT !.due = tm.due + tm.period]}])
    /\ lastEvent' = Event("tick", Len(calls) + 1, Pending)
    /\ UNCHANGED <<phase, cfg, now>>

\* Refetch without its startInterval
RefetchNoRestart ==
    /\ phase = "mounted"
    /\ Len(calls) < MaxCalls
    /\ Install(FetchData(Cur, cfg.apiCall, "refetch", now))
    /\ lastEvent' = Event("refetch", Len(calls) + 1, Pending)
    /\ UNCHANGED <<phase, cfg, now>>

\* the host calls refetch (the button of the mounted component, or a test)
Refetch ==
    /\ phase = "mounted"
    /\ Len(calls) < MaxCalls
    /\ Install(StartInterval(FetchData(Cur, cfg.apiCall, "refetch", now),
                             cfg.apiCall, cfg.interval, now))
    /\ lastEvent' = Event("refetch", Len(calls) + 1, Pending)
    /\ UNCHANGED <<phase, cfg, now>>

\* the promise of call r settles and fetchData resumes after its await
Resolve ==
    /\ \E r \in PendingCalls(calls), o \in Outcomes :
        /\ Install(Continuation(Cur, r, o))
        /\ lastEvent' = Event("resolve", r, o)
    /\ UNCHANGED <<phase, cfg, now>>

\* the component is unmounted: the cleanup runs
Unmount ==
    /\ phase = "mounted"
    /\ Install(Cleanup(Cur))
    /\ phase' = "unmounted"
    /\ lastEvent' = Event("unmount", 0, Pending)
    /\ UNCHANGED <<cfg, now>>

\* time passes (measured from the mount); a timer fires when it is due,
\* never later
Advance ==
    /\ phase # "created"
    /\ now < MaxTime
    /\ \A tm \in timers : tm.due > now
    /\ now' = now + 1
    /\ lastEvent' = Event("advance", 0, Pending)
    /\ UNCHANGED <<phase, cfg, data, loading, error, intervalRef,
                   abortControllerRef, timers, nextTimerId, aborted, calls,
                   latestOutcome>>

Next ==
    \/ Mount
    \/ Tick
    \/ Refetch
    \/ Resolve
    \/ Unmount
    \/ Advance

Spec == Init /\ [][Next]_vars

\* ---- the hook inside ApiComponent ----

\* ApiComponent passes immediate: true; its interval is cfg.interval units of
\* the clock
CompInit == Init /\ cfg.immediate

\* a click on the refetch button, which is disabled while loading
RefetchClick == ~loading /\ Refetch

CompNext ==
    \/ Mount
    \/ Tick
    \/ RefetchClick
    \/ Resolve
    \/ Unmount
    \/ Advance

CompSpec == CompInit /\ [][CompNext]_vars

\* ---- the host re-renders the hook with other options ----

Fns == 1..NumFns
HostConfigs == [apiCall : Fns, interval : Intervals, immediate : BOOLEAN]

\* a dependency of the effect changed (fetchData through apiCall,
\* startInterval through interval, or immediate): the cleanup of the previous
\* effect runs, then the effect with the new options
Reconfigure ==
    /\ phase = "mounted"
    /\ nextTimerId <= MaxTimerId
    /\ \E c \in HostConfigs :
        /\ c # cfg
        /\ c.immediate => Len(calls) < MaxCalls
        /\ cfg' = c
        /\ Install(Effect(Cleanup(Cur), c, now))
    /\ lastEvent' = Event("reconfigure", 0, Pending)
    /\ UNCHANGED <<phase, now>>

ReconfNext ==
    \/ Mount
    \/ Tick
    \/ Resolve
    \/ Reconfigure
    \/ Unmount
    \/ Advance

ReconfSpec == Init /\ [][ReconfNext]_vars

\* ---- the hook polling for ever, with a fetch function that honours its signal ----

\* the calls that still matter: the unsettled ones and the latest one
Kept(cs) == PendingCalls(cs) \cup (IF Len(cs) > 0 THEN {Len(cs)} ELSE {})

\* settled promises and their controllers are dropped; the calls that remain
\* are numbered again from 1, their history fields reset
Forget(h) ==
    LET K == Kept(h.calls)
        n == Cardinality(K)
        old(k) == CHOOSE i \in K : Cardinality({j \in K : j <= i}) = k
    IN [h EXCEPT !.calls = [k \in 1..n |->
                               [h.calls[old(k)] EXCEPT !.signal = k,
                                                       !.at = 0,
                                                       !.outstanding = {},
                                                       !.abortedAtInvoke = {}]],
                 !.aborted = {k \in 1..n : h.calls[old(k)].signal \in h.aborted},
                 !.abortControllerRef = IF n = 0 THEN h.abortControllerRef ELSE n]

\* a due timer fires; the clock is then read from this tick on
LiveTick ==
    /\ Cardinality(PendingCalls(calls)) < MaxPending
    /\ \E tm \in timers :
        /\ tm.due = now
        /\ LET h1 == FetchData(Cur, tm.fn, "tick", 0)
           IN Install(Forget([h1 EXCEPT !.timers =
                  {[x EXCEPT !.due = IF x = tm THEN x.period ELSE x.due - now]
                      : x \in h1.timers}]))
    /\ now' = 0
    /\ lastEvent' = Event("tick", 0, Pending)
    /\ UNCHANGED <<phase, cfg>>

\* a request whose signal was aborted fails with an AbortError
ResolveCancelled ==
    /\ \E r \in PendingCalls(calls) :
        /\ calls[r].signal \in aborted
        /\ Install(Forget(Continuation(Cur, r, Rejected(AbortErrorObject))))
    /\ lastEvent' = Event("resolve", 0, Rejected(AbortErrorObject))
    /\ UNCHANGED <<phase, cfg, now>>

\* the request whose signal is not aborted settles, with a value or a failure
\* that is not a cancellation
ResolveLive ==
    /\ \E r \in PendingCalls(calls), o \in Outcomes \ {Rejected(AbortErrorObject)} :
        /\ calls[r].signal \notin aborted
        /\ Install(Forget(Continuation(Cur, r, o)))
        /\ lastEvent' = Event("resolve", 0, o)
    /\ UNCHANGED <<phase, cfg, now>>

\* time passes up to the next tick
LiveAdvance ==
    /\ timers # {}
    /\ \A tm \in timers : tm.due > now
    /\ now' = now + 1
    /\ lastEvent' = Event("advance", 0, Pending)
    /\ UNCHANGED <<phase, cfg, data, loading, error, intervalRef,
                   abortControllerRef, timers, nextTimerId, aborted, calls,
                   latestOutcome>>

LiveNext ==
    \/ Mount
    \/ LiveTick
    \/ ResolveCancelled
    \/ ResolveLive
    \/ LiveAdvance

\* the event loop runs the mount effect and due timers, time passes, and a
\* cancelled request ends.  A request that is not cancelled ends if it stays
\* so; here the next tick cancels every request, so this asks for nothing.
FairSpec ==
    /\ Init
    /\ [][LiveNext]_vars
    /\ WF_vars(Mount)
    /\ WF_vars(LiveTick)
    /\ WF_vars(LiveAdvance)
    /\ WF_vars(ResolveCancelled)

\* ---- the claims ----

IsResolve(e) == e.kind = "resolve"
Latest == Len(calls)

\* calls r..n were all made by refetch, each while all the earlier ones of
\* r..n were still pending
Burst(r, n) ==
    /\ r < n
    /\ \A k \in r..n : calls[k].by = "refetch"
    /\ \A k \in (r + 1)..n : (r..(k - 1)) \subseteq calls[k].outstanding

\* C1 (single-flight): when N >= 2 refetch calls were made before any of
\* their requests resolved, the resolution of any of the first N-1 of them
\* leaves data and error unchanged.
C1_SingleFlight ==
    [][(IsResolve(lastEvent') /\ \E n \in 1..Latest : Burst(lastEvent'.req, n))
          => (data' = data /\ error' = error)]_vars

\* data and error show outcome o: a value, or a reported Error
Reflects(o) ==
    /\ o.kind = "fulfilled" => (data = o.val /\ error = Null)
    /\ (o.kind = "rejected" /\ o.err \in ErrorObjects)
          => (error = o.err.id /\ data = Null)

\* C2 (last writer wins by request identity): when the latest request B was
\* issued by a tick or a refetch while an earlier request A was outstanding,
\* and both have resolved, data and error show B's outcome.
C2_LastWriterWins ==
    (/\ Latest >= 2
     /\ calls[Latest].by \in {"tick", "refetch"}
     /\ calls[Latest].settled
     /\ \E a \in calls[Latest].outstanding : calls[a].settled)
        => Reflects(latestOutcome)

\* C3: while mounted, loading is true exactly when the most recently issued
\* request has not resolved.
C3_LoadingIffLatestPending ==
    phase = "mounted" => (loading <=> (Latest >= 1 /\ ~calls[Latest].settled))

\* C4 (cancellation swallowing): a resolution with an Error named AbortError
\* changes neither error nor data.
C4_AbortSwallowed ==
    [][(/\ IsResolve(lastEvent')
        /\ lastEvent'.outcome.kind = "rejected"
        /\ lastEvent'.outcome.err.isError
        /\ lastEvent'.outcome.err.name = "AbortError")
          => (error' = error /\ data' = data)]_vars

\* an AbortError resolution has happened while an error was shown
C4_Witness ==
    /\ IsResolve(lastEvent)
    /\ lastEvent.outcome = Rejected(AbortErrorObject)
    /\ error # Null

\* C5 (operation failure): when the request that is not superseded fails with
\* an Error that is not a cancellation, then error is that Error, data is
\* absent and loading is false.
C5_OperationFailure ==
    [][(/\ IsResolve(lastEvent')
        /\ lastEvent'.req = Latest
        /\ lastEvent'.outcome.kind = "rejected"
        /\ lastEvent'.outcome.err \in ErrorObjects)
          => (/\ error' = lastEvent'.outcome.err.id
              /\ data' = Null
              /\ loading' = FALSE)]_vars

\* the second request, issued after the first had resolved, has failed
C5_Witness ==
    /\ IsResolve(lastEvent)
    /\ Latest = 2
    /\ lastEvent.req = 2
    /\ calls[2].outstanding = {}
    /\ lastEvent.outcome.kind = "rejected"
    /\ lastEvent.outcome.err \in ErrorObjects
    /\ error = lastEvent.outcome.err.id
    /\ data = Null

\* C6 (non-conforming failure): a resolution with a value that is not an
\* Error does not set error (it stays absent if it was), leaves data
\* unchanged and sets loading to false.
C6_NonErrorNotReported ==
    [][(/\ IsResolve(lastEvent')
        /\ lastEvent'.outcome.kind = "rejected"
        /\ ~lastEvent'.outcome.err.isError)
          => (error' = error /\ data' = data /\ loading' = FALSE)]_vars

\* a raw string was thrown while data was shown
C6_Witness ==
    /\ IsResolve(lastEvent)
    /\ lastEvent.outcome = Rejected(StringObject)
    /\ data # Null
    /\ error = Null
    /\ ~loading

\* C7 (success path): when the request that is not superseded succeeds with
\* v, then data = v and error is absent.
C7_SuccessPath ==
    [][(/\ IsResolve(lastEvent')
        /\ lastEvent'.req = Latest
        /\ lastEvent'.outcome.kind = "fulfilled")
          => (data' = lastEvent'.outcome.val /\ error' = Null)]_vars

\* the request of a tick, issued after the first request had resolved, has
\* succeeded
C7_Witness ==
    /\ IsResolve(lastEvent)
    /\ Latest = 2
    /\ lastEvent.req = 2
    /\ calls[2].by = "tick"
    /\ calls[2].outstanding = {}
    /\ lastEvent.outcome.kind = "fulfilled"
    /\ data = lastEvent.outcome.val
    /\ error = Null

\* C8 (teardown): after the unmount no timer is armed, no step invokes
\* apiCall, and running the cleanup again would change nothing.
C8_Teardown ==
    /\ [](phase = "unmounted" => (timers = {} /\ Cleanup(Cur) = Cur))
    /\ [][phase = "unmounted"
            => (calls' = calls \/ IsResolve(lastEvent')) /\ Len(calls') = Len(calls)
               /\ lastEvent'.kind \notin {"tick", "refetch", "mount"}]_vars

\* unmounted with the only request in flight, and more than one interval has
\* passed since
C8_Witness ==
    /\ phase = "unmounted"
    /\ cfg.interval = 1
    /\ now = MaxTime
    /\ Latest = 1
    /\ ~calls[1].settled

\* C9 (teardown cancels in-flight work): after the unmount every signal that
\* was handed to apiCall is aborted.
C9_AllSignalsAborted ==
    phase = "unmounted" => \A i \in 1..Latest : calls[i].signal \in aborted

\* unmounted with two requests made and one in flight
C9_Witness ==
    /\ phase = "unmounted"
    /\ Latest >= 2
    /\ PendingCalls(calls) # {}

\* C10: the resolution of a request that was in flight at the unmount changes
\* none of data, error and loading, arms no timer and issues no request.
C10_ResolveAfterStop ==
    [][(phase = "unmounted" /\ IsResolve(lastEvent'))
          => (/\ data' = data
              /\ error' = error
              /\ loading' = loading
              /\ timers' = timers
              /\ Len(calls') = Len(calls))]_vars

NoRefetch == \A i \in 1..Latest : calls[i].by # "refetch"

\* C11 (interval fidelity): with immediate = true and no refetch, the i-th
\* request is issued at time (i-1)*interval (one at 0, one at each multiple
\* of the interval, none at another time), and while mounted time does not
\* pass a multiple of the interval without its request.
C11_IntervalFidelity ==
    (cfg.immediate /\ phase # "created" /\ NoRefetch)
        => (/\ \A i \in 1..Latest : calls[i].at = (i - 1) * cfg.interval
            /\ phase = "mounted" => now <= Latest * cfg.interval)

\* three requests were issued by the mount and two ticks
C11_Witness ==
    /\ cfg.immediate
    /\ NoRefetch
    /\ Latest >= 3
    /\ lastEvent.kind = "tick"
    /\ calls[3].at = 2 * cfg.interval

\* C12 (manual trigger restarts the period): a tick that follows a refetch
\* made at time t fires at t + interval, and right after a refetch the only
\* armed timer is due at t + interval.
C12_RefetchRestartsPeriod ==
    /\ \A i \in 2..Latest :
          (calls[i].by = "tick" /\ calls[i - 1].by = "refetch")
              => calls[i].at = calls[i - 1].at + cfg.interval
    /\ (phase = "mounted" /\ Latest >= 1 /\ calls[Latest].by = "refetch")
          => (/\ timers # {}
              /\ \A tm \in timers : tm.due = calls[Latest].at + cfg.interval
              /\ now <= calls[Latest].at + cfg.interval)

\* a refetch was made off the original schedule and the next tick followed it
C12_Witness ==
    /\ Latest >= 2
    /\ cfg.interval = 2
    /\ calls[Latest].by = "tick"
    /\ calls[Latest - 1].by = "refetch"
    /\ calls[Latest - 1].at = 1
    /\ calls[Latest].at = 3

\* C13: with immediate = false the mount issues no request and loading stays
\* false, data and error absent, until the first request, which a tick issues
\* at time interval (or a refetch); with immediate = true the mount issues
\* exactly one request and loading is true right after it.
C13_Immediate ==
    /\ phase = "created" => Latest = 0
    /\ (~cfg.immediate /\ Latest = 0)
          => (~loading /\ data = Null /\ error = Null)
    /\ (~cfg.immediate /\ Latest >= 1)
          => (/\ calls[1].by \in {"tick", "refetch"}
              /\ calls[1].by = "tick" => calls[1].at = cfg.interval)
    /\ lastEvent.kind = "mount"
          => IF cfg.immediate
             THEN Latest = 1 /\ calls[1].by = "mount" /\ loading
             ELSE Latest = 0

\* without immediate, the first request was issued by the first tick
C13_Witness ==
    /\ ~cfg.immediate
    /\ Latest = 1
    /\ calls[1].by = "tick"
    /\ loading

\* C14: at most one timer is armed, and it is the one in the timer slot (a
\* timer that was replaced is not armed any more).
C14_OneTimer ==
    /\ Cardinality(timers) <= 1
    /\ \A tm \in timers : tm.id = intervalRef

\* a timer has been replaced
C14_Witness ==
    /\ nextTimerId >= 3
    /\ Cardinality(timers) = 1

\* C15: only the signal of the latest request can be un-aborted; the signals
\* of the requests are pairwise distinct and none was aborted when apiCall
\* was invoked with it.
C15_OneLiveToken ==
    /\ \A i \in 1..Latest : calls[i].signal \notin aborted => i = Latest
    /\ \A i, j \in 1..Latest : calls[i].signal = calls[j].signal => i = j
    /\ \A i \in 1..Latest : calls[i].signal \notin calls[i].abortedAtInvoke

\* two requests are outstanding and only the second one's signal is live
C15_Witness ==
    /\ Latest = 2
    /\ PendingCalls(calls) = {1, 2}
    /\ calls[1].signal \in aborted
    /\ calls[2].signal \notin aborted

\* C16 (ordering of supersession): when apiCall is invoked for a request, the
\* signal of the previous request is already aborted, and the abort happens
\* in the step that issues the new request (only the unmount aborts otherwise).
C16_AbortBeforeInvoke ==
    /\ [](\A i \in 2..Latest : calls[i - 1].signal \in calls[i].abortedAtInvoke)
    /\ [][aborted' # aborted
            => (Len(calls') = Len(calls) + 1 \/ lastEvent'.kind = "unmount")]_vars

\* a request was issued while the previous one was outstanding
C16_Witness ==
    /\ Latest >= 2
    /\ (Latest - 1) \in calls[Latest].outstanding
    /\ calls[Latest - 1].signal \in calls[Latest].abortedAtInvoke

\* C17: in ApiComponent a refetch is never made while loading is true, nor
\* while a request is outstanding (only ticks supersede outstanding requests).
C17_RefetchOnlyWhenIdle ==
    [][lastEvent'.kind = "refetch"
          => (~loading /\ PendingCalls(calls) = {})]_vars

\* C18: whatever the outcome of apiCall, the promise returned by fetchData
\* ends normally; no failure is thrown out of it.
C18_NoFailureEscapes ==
    \A i \in 1..Latest :
        /\ calls[i].completion # "thrown"
        /\ calls[i].settled => calls[i].completion = "normal"

\* a request has been rejected with a value that is not reported
C18_Witness ==
    /\ IsResolve(lastEvent)
    /\ lastEvent.outcome = Rejected(StringObject)
    /\ calls[lastEvent.req].completion = "normal"
    /\ error = Null

\* C19: a step that issues a request sets loading to true and error to
\* absent and leaves data unchanged.
C19_IssueKeepsData ==
    [][Len(calls') > Len(calls)
          => (loading' /\ error' = Null /\ data' = data)]_vars

\* a tick has issued the second request while the first value is shown
C19_Witness ==
    /\ lastEvent.kind = "tick"
    /\ Latest = 2
    /\ calls[2].outstanding = {}
    /\ data # Null
    /\ loading
    /\ error = Null

\* C20: every tick issues a request, loading or not: it aborts the signal in
\* the slot and invokes apiCall with a new, un-aborted signal.
C20_TickAlwaysIssues ==
    [][lastEvent'.kind = "tick"
          => (/\ Len(calls') = Len(calls) + 1
              /\ calls'[Len(calls')].by = "tick"
              /\ abortControllerRef # Null => abortControllerRef \in aborted'
              /\ abortControllerRef' = calls'[Len(calls')].signal
              /\ abortControllerRef' # abortControllerRef
              /\ abortControllerRef' \notin aborted')]_vars

\* a tick arrived while the first request was outstanding (loading true)
C20_Witness ==
    /\ lastEvent.kind = "tick"
    /\ Latest = 2
    /\ calls[2].outstanding = {1}
    /\ calls[1].signal \in aborted
    /\ loading

\* the apiCall invocations that a step of the given kind makes
IssuedBy(kind) ==
    IF kind \in {"tick", "refetch"} \/ (kind = "mount" /\ cfg.immediate)
    THEN 1 ELSE 0

\* C21 (no automatic retry): every step adds to the number of apiCall
\* invocations exactly one for a tick, one for a refetch, one for the mount
\* when immediate, and none otherwise; a resolution adds none.
C21_NoRetry ==
    [][Len(calls') = Len(calls) + IssuedBy(lastEvent'.kind)]_vars

\* the only request has failed with an Error and no other was issued
C21_Witness ==
    /\ IsResolve(lastEvent)
    /\ lastEvent.outcome.kind = "rejected"
    /\ lastEvent.outcome.err \in ErrorObjects
    /\ Latest = 1
    /\ PendingCalls(calls) = {}
    /\ error # Null

\* C22: data and error are never both present.
C22_DataXorError == ~(data # Null /\ error # Null)

\* a superseded request has failed with an Error while the newer one is
\* outstanding, after a value had been shown
C22_Witness ==
    /\ IsResolve(lastEvent)
    /\ Latest = 3
    /\ calls[1].settled
    /\ lastEvent.req = 2
    /\ ~calls[3].settled
    /\ lastEvent.outcome.kind = "rejected"
    /\ lastEvent.outcome.err \in ErrorObjects
    /\ error # Null
    /\ data = Null

\* C24 (reconfiguration while mounted): the step that applies new options
\* aborts the signal in the slot and disarms the timer in the slot, issues
\* one request with the new apiCall when immediate is set and none otherwise,
\* and leaves exactly one timer armed, for the new apiCall and interval; it
\* leaves data unchanged, and error and loading too unless it issues a
\* request.  No request is ever issued with an apiCall other than the current.
C24_Reconfiguration ==
    /\ [][lastEvent'.kind = "reconfigure"
            => (/\ data' = data
                /\ abortControllerRef # Null => abortControllerRef \in aborted'
                /\ \A tm \in timers' : tm.id # intervalRef
                /\ timers' = {[id |-> intervalRef', fn |-> cfg'.apiCall,
                               period |-> cfg'.interval,
                               due |-> now + cfg'.interval]}
                /\ IF cfg'.immediate
                   THEN /\ Len(calls') = Len(calls) + 1
                        /\ SubSeq(calls', 1, Len(calls)) = calls
                        /\ calls'[Len(calls')].fn = cfg'.apiCall
                        /\ abortControllerRef # Null =>
                              abortControllerRef \in calls'[Len(calls')].abortedAtInvoke
                        /\ loading' /\ error' = Null
                   ELSE calls' = calls /\ error' = error /\ loading' = loading)]_vars
    /\ [][Len(calls') > Len(calls)
            => calls'[Len(calls')].fn = cfg'.apiCall]_vars
    /\ [](Cardinality(timers) <= 1)

\* the options changed while a request of the old apiCall was outstanding;
\* the new apiCall has been invoked and the new timer is armed
C24_Witness ==
    /\ lastEvent.kind = "reconfigure"
    /\ Latest = 2
    /\ calls[1].fn # calls[2].fn
    /\ calls[2].fn = cfg.apiCall
    /\ PendingCalls(calls) = {1, 2}
    /\ calls[1].signal \in aborted
    /\ Cardinality(timers) = 1

\* the latest request has settled, data and error show its outcome, and
\* loading is false
Progressed ==
    /\ latestOutcome.kind # "pending"
    /\ Reflects(latestOutcome)
    /\ ~loading

TypeOK ==
    /\ phase \in {"created", "mounted", "unmounted"}
    /\ cfg \in Configs
    /\ data \in {Null} \cup Values
    /\ loading \in BOOLEAN
    /\ error \in {Null} \cup 1..(NumErrors + 2)
    /\ now \in 0..MaxTime
    /\ Len(calls) <= MaxCalls
====
